---- MODULE Spec2Model ----
(***************************************************************************)
(* Team / roster management of the hockey backend.                         *)
(*                                                                         *)
(*   - the relational store and the handlers of endpoints/teams_new.py     *)
(*     (teams, players, team_memberships), one step per database           *)
(*     statement, so that requests of several workers interleave;          *)
(*   - the access-control function check_team_permission;                  *)
(*   - the in-memory store of endpoints/teams.py (the routed one);         *)
(*   - the identity store: users and bearer tokens (endpoints/auth.py,     *)
(*     endpoints/users.py, api/deps.py).                                   *)
(***************************************************************************)
EXTENDS Integers, Sequences, FiniteSets, TLC

VARIABLES
    teams,          \* table teams: id -> [created_by, max_players, team_code]
    players,        \* table players: row id (1..Len) -> [team_id, jersey_number, is_active]
    memberships,    \* table team_memberships: set of rows
    req,            \* handler invocations of teams_new.py: proc -> locals and position
    overlap,        \* history: procs that were in flight while proc's request ran
    permCall,       \* arguments of the last check_team_permission call
    permResult,     \* its outcome
    teams_db,       \* teams.py: team id -> team dict
    team_members_db,\* teams.py: team id -> list of member emails
    memResp,        \* teams.py: last response
    team_user_ids,  \* history: team id -> ids of the users who created / joined it
    users,          \* table users: id -> [email, full_name, hashed_password, is_active]
    user_tokens,    \* table user_tokens: set of rows [token, user_id, user_email]
    issued          \* number of tokens secrets.token_urlsafe has returned so far
vars == <<teams, players, memberships, req, overlap, permCall, permResult,
          teams_db, team_members_db, memResp, team_user_ids,
          users, user_tokens, issued>>

dbVars == <<teams, players, memberships>>
permVars == <<permCall, permResult>>
memVars == <<teams_db, team_members_db, memResp, team_user_ids>>
authVars == <<users, user_tokens, issued>>

(***************************************************************************)
(* Bounds                                                                  *)
(***************************************************************************)
NumTeams == 2
NumUsers == 2
NumProcs == 2
MaxRows == 2
MaxCap == 2
MaxNum == 2
MaxMemberRows == 2
MaxMemTeams == 2
MaxTokens == 2

(***************************************************************************)
(* Program constants                                                       *)
(***************************************************************************)
MinJersey == 1
MaxJersey == 99
TeamCodeLen == 6

Users == 1..NumUsers
NoUser == 0
TeamIds == 1..NumTeams
Roles == {"owner", "coach", "parent", "viewer"}

\* jersey numbers a client may send: legal ones and one past the range
NumberInputs == (1..MaxNum) \cup {MaxJersey + 1}

(***************************************************************************)
(* schemas/team.py                                                         *)
(***************************************************************************)
validate_jersey_number(v) == ~(v < MinJersey \/ v > MaxJersey)

\* PlayerUpdate.dict(exclude_unset=True): the keys the client sent
NoUpd == [has_jersey |-> FALSE, jersey_number |-> 0, has_active |-> FALSE, is_active |-> FALSE]
PlayerUpdate ==
    { [has_jersey |-> hj, jersey_number |-> IF hj THEN n ELSE 0,
       has_active |-> ha, is_active |-> IF ha THEN a ELSE FALSE] :
         hj \in BOOLEAN, n \in NumberInputs, ha \in BOOLEAN, a \in BOOLEAN }

(***************************************************************************)
(* Access control: teams_new.py check_team_permission                      *)
(***************************************************************************)
\* check_team_permission without the creator test of lines 47-48
check_team_permission_no_creator(user, team, required_roles) ==
    "NameError"

\* The function body names `db`, which is neither a parameter nor a module
\* global: past the creator test the call raises NameError.
check_team_permission(user, team, required_roles) ==
    IF team.created_by = user
      THEN "True"
      ELSE "NameError"

(***************************************************************************)
(* teams_new.py generate_team_code                                         *)
(***************************************************************************)
\* Line 42 ends with chars.replace('1'): str.replace takes at least two
\* arguments, so the call raises TypeError before any character is drawn.
generate_team_code == [raised |-> "TypeError"]

(***************************************************************************)
(* Queries on the players table                                            *)
(***************************************************************************)
PlayerIds == 1..Len(players)

\* filter(team_id == t, is_active == True)
ActivePlayers(t) ==
    {i \in PlayerIds : players[i].team_id = t /\ players[i].is_active}


\* filter(team_id == t, jersey_number == n, is_active == True)
JerseyHolders(t, n) ==
    {i \in ActivePlayers(t) : players[i].jersey_number = n}

\* a player lookup by id alone, without the team_id filter
PlayerFound_any_team(t, pid) ==
    pid \in PlayerIds

\* filter(id == pid, team_id == t).first()
PlayerFound(t, pid) ==
    pid \in PlayerIds /\ players[pid].team_id = t

Range(f) == {f[i] : i \in DOMAIN f}

Min(S) == CHOOSE x \in S : \A y \in S : x <= y

\* sorted(list): the jersey numbers of the rows ids, ascending, one entry per row
RECURSIVE sorted(_)
sorted(ids) ==
    IF ids = {} THEN << >>
    ELSE LET lo == Min({players[i].jersey_number : i \in ids})
             i == CHOOSE k \in ids : players[k].jersey_number = lo
         IN <<lo>> \o sorted(ids \ {i})

\* [num for num in all_numbers if num not in taken_numbers]
RECURSIVE not_in(_, _, _)
not_in(lo, hi, taken) ==
    IF lo > hi THEN << >>
    ELSE (IF lo \in taken THEN << >> ELSE <<lo>>) \o not_in(lo + 1, hi, taken)

\* get_available_jersey_numbers, lines 451-468
get_available_jersey_numbers(t) ==
    LET taken_numbers == sorted(ActivePlayers(t))
    IN  [available_numbers |-> not_in(MinJersey, MaxJersey, Range(taken_numbers)),
         taken_numbers |-> taken_numbers]

(***************************************************************************)
(* Handler invocations of teams_new.py                                     *)
(***************************************************************************)
NoRow == [jersey_number |-> 0, is_active |-> FALSE]
NoTeamUpd == [has_max |-> FALSE, max_players |-> 0]
TeamUpdate ==
    { [has_max |-> h, max_players |-> IF h THEN m ELSE 0] :
         h \in BOOLEAN, m \in 1..MaxCap }

\* the Authorization header of a request: absent, of another scheme, or
\* "Bearer <token>"; token 0 is the empty string
NoHeader == [present |-> FALSE, bearer |-> FALSE, token |-> 0]
OtherScheme == [present |-> TRUE, bearer |-> FALSE, token |-> 0]
Bearer(tk) == [present |-> TRUE, bearer |-> TRUE, token |-> tk]

\* locals of the handlers of auth.py and users.py: the loaded user row and the
\* request body (0 stands for None)
NoUserRow == [email |-> 0, full_name |-> 0]
NoBody == [email |-> 0, full_name |-> 0, password |-> 0]

Idle == [pc |-> "idle", op |-> "none", team |-> 0, num |-> 0, pid |-> 0,
         upd |-> NoUpd, tupd |-> NoTeamUpd, maxp |-> 0, row |-> NoRow,
         result |-> "none",
         auth |-> NoHeader, token |-> 0, uid |-> 0, urow |-> NoUserRow,
         body |-> NoBody, listed |-> {}, freed |-> FALSE]

Free(p) == req[p].pc \in {"idle", "done"}
InFlight(p) == ~Free(p)

\* a new request of proc p with its path and body arguments
Request(o, t, n, pid, u, tu) ==
    [Idle EXCEPT !.op = o, !.team = t, !.num = n, !.pid = pid, !.upd = u, !.tupd = tu]

\* an error response, or one without a body: the operation and its outcome
Done(r, res) ==
    [Idle EXCEPT !.pc = "done", !.op = r.op, !.result = res, !.freed = r.freed]

\* a response about a row: its id, its team and its jersey number
Returned(r, t, pid, n) ==
    [Idle EXCEPT !.pc = "done", !.op = r.op, !.result = "ok",
                 !.team = t, !.pid = pid, !.num = n, !.freed = r.freed]

\* history: the request this worker answered last was a remove_player that
\* succeeded for a player of team t who had jersey number n
JustRemoved(p, t, n) ==
    /\ req[p].pc = "done" /\ req[p].op = "remove_player" /\ req[p].result = "ok"
    /\ req[p].team = t /\ req[p].num = n

\* history of which requests ran while others were in flight
Began(p) ==
    LET F == {q \in DOMAIN req : q # p /\ InFlight(q)}
    IN  overlap' = [q \in DOMAIN req |->
                      IF q = p THEN F
                      ELSE IF q \in F THEN overlap[q] \cup {p} ELSE overlap[q]]

\* rows that in-flight add_player requests are still to insert
PendingAdds == Cardinality({q \in DOMAIN req : req[q].pc \in {"add_jersey", "add_count", "add_commit"}})

TeamIdInputs == 1..(NumTeams + 1)
ActorInputs == Users \cup {NoUser}

\* add_player, lines 216-235: authentication, team lookup, permission
AddStart(p, actor, t, n) ==
    /\ Free(p)
    /\ Len(players) + PendingAdds < MaxRows
    /\ Began(p)
    /\ LET r == [Request("add_player", t, n, 0, NoUpd, NoTeamUpd) EXCEPT
                    !.freed = JustRemoved(p, t, n)]
       IN req' = [req EXCEPT ![p] =
            IF ~validate_jersey_number(n) THEN Done(r, "InvalidInput")
            ELSE IF actor = NoUser THEN Done(r, "Unauthorized")
            ELSE IF t \notin DOMAIN teams THEN Done(r, "NotFound")
            ELSE LET perm == check_team_permission(actor, teams[t], {"owner", "coach"})
                 IN IF perm = "NameError" THEN Done(r, "InternalError")
                    ELSE IF perm = "False" THEN Done(r, "Forbidden")
                    ELSE [r EXCEPT !.pc = "add_jersey", !.maxp = teams[t].max_players]]
    /\ UNCHANGED <<dbVars, permVars, memVars, authVars>>

\* add_player, lines 237-248: is the jersey number taken
AddCheckJersey(p) ==
    /\ req[p].pc = "add_jersey"
    /\ req' = [req EXCEPT ![p] =
         IF JerseyHolders(req[p].team, req[p].num) # {}
           THEN Done(req[p], "Conflict")
           ELSE [req[p] EXCEPT !.pc = "add_count"]]
    /\ UNCHANGED <<dbVars, overlap, permVars, memVars, authVars>>

\* add_player, lines 250-260: team size limit
AddCheckCount(p) ==
    /\ req[p].pc = "add_count"
    /\ req' = [req EXCEPT ![p] =
         IF Cardinality(ActivePlayers(req[p].team)) >= req[p].maxp
           THEN Done(req[p], "TeamFull")
           ELSE [req[p] EXCEPT !.pc = "add_commit"]]
    /\ UNCHANGED <<dbVars, overlap, permVars, memVars, authVars>>

\* add_player, lines 262-274: insert and commit
AddCommit(p) ==
    /\ req[p].pc = "add_commit"
    /\ players' = Append(players,
          [team_id |-> req[p].team, jersey_number |-> req[p].num, is_active |-> TRUE])
    /\ req' = [req EXCEPT ![p] =
                  Returned(req[p], req[p].team, Len(players) + 1, req[p].num)]
    /\ UNCHANGED <<teams, memberships, overlap, permVars, memVars, authVars>>

PlayerIdInputs == 1..MaxRows

\* update_player, lines 323-355: authentication, team and player lookup, permission
UpdStart(p, actor, t, pid, u) ==
    /\ Free(p)
    /\ Began(p)
    /\ LET r == Request("update_player", t, 0, pid, u, NoTeamUpd)
       IN req' = [req EXCEPT ![p] =
            IF actor = NoUser THEN Done(r, "Unauthorized")
            ELSE IF t \notin DOMAIN teams THEN Done(r, "NotFound")
            ELSE IF ~PlayerFound(t, pid) THEN Done(r, "NotFound")
            ELSE LET perm == check_team_permission(actor, teams[t], {"owner", "coach"})
                 IN IF perm = "NameError" THEN Done(r, "InternalError")
                    ELSE IF perm = "False" THEN Done(r, "Forbidden")
                    ELSE [r EXCEPT
                            !.pc = IF u.has_jersey THEN "upd_jersey" ELSE "upd_commit",
                            !.row = [jersey_number |-> players[pid].jersey_number,
                                     is_active |-> players[pid].is_active]]]
    /\ UNCHANGED <<dbVars, permVars, memVars, authVars>>

\* update_player, lines 356-368: jersey conflict with another active player
UpdCheckJersey(p) ==
    /\ req[p].pc = "upd_jersey"
    /\ req' = [req EXCEPT ![p] =
         IF JerseyHolders(req[p].team, req[p].upd.jersey_number) \ {req[p].pid} # {}
           THEN Done(req[p], "Conflict")
           ELSE [req[p] EXCEPT !.pc = "upd_commit"]]
    /\ UNCHANGED <<dbVars, overlap, permVars, memVars, authVars>>

\* setattr on the loaded row and commit: the UPDATE carries the columns whose
\* value differs from the loaded one
ApplyPlayerUpdate(cur, loaded, u) ==
    [cur EXCEPT
       !.jersey_number = IF u.has_jersey /\ u.jersey_number # loaded.jersey_number
                           THEN u.jersey_number ELSE @,
       !.is_active = IF u.has_active /\ u.is_active # loaded.is_active
                       THEN u.is_active ELSE @]

\* update_player, lines 370-379
UpdCommit(p) ==
    /\ req[p].pc = "upd_commit"
    /\ players' = [players EXCEPT ![req[p].pid] =
                      ApplyPlayerUpdate(@, req[p].row, req[p].upd)]
    /\ req' = [req EXCEPT ![p] =
                  Returned(req[p], req[p].team, req[p].pid,
                           players'[req[p].pid].jersey_number)]
    /\ UNCHANGED <<teams, memberships, overlap, permVars, memVars, authVars>>

\* remove_player, lines 389-418: authentication, team and player lookup, permission
RemStart(p, actor, t, pid) ==
    /\ Free(p)
    /\ Began(p)
    /\ LET r == Request("remove_player", t, 0, pid, NoUpd, NoTeamUpd)
       IN req' = [req EXCEPT ![p] =
            IF actor = NoUser THEN Done(r, "Unauthorized")
            ELSE IF t \notin DOMAIN teams THEN Done(r, "NotFound")
            ELSE IF ~PlayerFound(t, pid) THEN Done(r, "NotFound")
            ELSE LET perm == check_team_permission(actor, teams[t], {"owner"})
                 IN IF perm = "NameError" THEN Done(r, "InternalError")
                    ELSE IF perm = "False" THEN Done(r, "Forbidden")
                    ELSE [r EXCEPT
                            !.pc = "rem_commit",
                            !.row = [jersey_number |-> players[pid].jersey_number,
                                     is_active |-> players[pid].is_active]]]
    /\ UNCHANGED <<dbVars, permVars, memVars, authVars>>

\* a remove_player that deletes the row (db.delete(player); commit)
RemCommit_deleting(p) ==
    /\ req[p].pc = "rem_commit"
    /\ players' = [i \in 1..(Len(players) - 1) |->
                      IF i < req[p].pid THEN players[i] ELSE players[i + 1]]
    /\ req' = [req EXCEPT ![p] =
                  Returned(req[p], req[p].team, req[p].pid, players[req[p].pid].jersey_number)]
    /\ UNCHANGED <<teams, memberships, overlap, permVars, memVars, authVars>>

\* remove_player, lines 420-426: player.is_active = False; commit
RemCommit(p) ==
    /\ req[p].pc = "rem_commit"
    /\ players' = [players EXCEPT ![req[p].pid] =
                      ApplyPlayerUpdate(@, req[p].row,
                          [NoUpd EXCEPT !.has_active = TRUE, !.is_active = FALSE])]
    /\ req' = [req EXCEPT ![p] =
                  Returned(req[p], req[p].team, req[p].pid, players[req[p].pid].jersey_number)]
    /\ UNCHANGED <<teams, memberships, overlap, permVars, memVars, authVars>>

\* update_team, lines 173-192: authentication, team lookup, permission
TeamUpdStart(p, actor, t, tu) ==
    /\ Free(p)
    /\ Began(p)
    /\ LET r == Request("update_team", t, 0, 0, NoUpd, tu)
       IN req' = [req EXCEPT ![p] =
            IF actor = NoUser THEN Done(r, "Unauthorized")
            ELSE IF t \notin DOMAIN teams THEN Done(r, "NotFound")
            ELSE LET perm == check_team_permission(actor, teams[t], {"owner", "coach"})
                 IN IF perm = "NameError" THEN Done(r, "InternalError")
                    ELSE IF perm = "False" THEN Done(r, "Forbidden")
                    ELSE [r EXCEPT !.pc = "team_commit", !.maxp = teams[t].max_players]]
    /\ UNCHANGED <<dbVars, permVars, memVars, authVars>>

\* an update_team whose commit also writes a team_code (0) to the row
TeamUpdCommit_with_code(p) ==
    /\ req[p].pc = "team_commit"
    /\ teams' = [teams EXCEPT ![req[p].team].max_players =
                    IF req[p].tupd.has_max /\ req[p].tupd.max_players # req[p].maxp
                      THEN req[p].tupd.max_players ELSE @,
                               ![req[p].team].team_code = 0]
    /\ req' = [req EXCEPT ![p] = Returned(req[p], req[p].team, 0, 0)]
    /\ UNCHANGED <<players, memberships, overlap, permVars, memVars, authVars>>

\* update_team, lines 194-204: setattr for every field sent; commit
TeamUpdCommit(p) ==
    /\ req[p].pc = "team_commit"
    /\ teams' = [teams EXCEPT ![req[p].team].max_players =
                    IF req[p].tupd.has_max /\ req[p].tupd.max_players # req[p].maxp
                      THEN req[p].tupd.max_players ELSE @]
    /\ req' = [req EXCEPT ![p] = Returned(req[p], req[p].team, 0, 0)]
    /\ UNCHANGED <<players, memberships, overlap, permVars, memVars, authVars>>

\* create_team of teams_new.py, lines 72-80: authentication, then the first
\* generate_team_code() call raises and the request ends as an unhandled error.
\* The collision loop of lines 81-82 and the two commits of lines 91-102 (the
\* team, then its owner membership) are never reached.
CreateTeamNew(p, actor) ==
    /\ Free(p)
    /\ Began(p)
    /\ generate_team_code.raised = "TypeError"
    /\ LET r == Request("create_team", 0, 0, 0, NoUpd, NoTeamUpd)
       IN req' = [req EXCEPT ![p] =
            IF actor = NoUser THEN Done(r, "Unauthorized")
            ELSE Done(r, "InternalError")]
    /\ UNCHANGED <<dbVars, permVars, memVars, authVars>>

(***************************************************************************)
(* The database the handlers run against                                   *)
(***************************************************************************)
\* teams and memberships already stored: team t was created by user t and has
\* the owner membership create_team is written to add; user 2 also coaches team 1
InitTeams(ids) ==
    [t \in ids |-> [created_by |-> t, max_players |-> MaxCap, team_code |-> t]]

InitMemberships(ids) ==
    { [team_id |-> t, user_id |-> t, role |-> "owner", is_active |-> TRUE, approved |-> TRUE] :
        t \in ids }
    \cup { [team_id |-> 1, user_id |-> 2, role |-> "coach", is_active |-> TRUE, approved |-> TRUE] }

InitPerm ==
    /\ permCall = [user |-> NoUser, team |-> 0, required_roles |-> {}]
    /\ permResult = "none"

InitMem ==
    /\ teams_db = << >>
    /\ team_members_db = << >>
    /\ memResp = [op |-> "none", result |-> "none", team_id |-> 0, teams |-> << >>]
    /\ team_user_ids = << >>

\* hashlib.sha256(password.encode()).hexdigest(), auth.py lines 38-40
hash_password(password) == [sha256 |-> password]

\* a row of table users as register stores it (is_active defaults to True)
UserRow(email, full_name, password) ==
    [email |-> email, full_name |-> full_name,
     hashed_password |-> hash_password(password), is_active |-> TRUE]

\* the accounts of the users of the team handlers: user u registered with
\* email u, name 1 and password 1; nobody is logged in
InitAuth ==
    /\ users = [u \in Users |-> UserRow(u, 1, 1)]
    /\ user_tokens = {}
    /\ issued = 0

InitDb(ids, procs) ==
    /\ teams = InitTeams(ids)
    /\ players = << >>
    /\ memberships = InitMemberships(ids)
    /\ req = [p \in procs |-> Idle]
    /\ overlap = [p \in procs |-> {}]

AddPlayer(p) ==
    \/ \E a \in ActorInputs, t \in TeamIdInputs, n \in NumberInputs : AddStart(p, a, t, n)
    \/ AddCheckJersey(p)
    \/ AddCheckCount(p)
    \/ AddCommit(p)

UpdatePlayer(p) ==
    \/ \E a \in ActorInputs, t \in TeamIdInputs, pid \in PlayerIdInputs, u \in PlayerUpdate :
          UpdStart(p, a, t, pid, u)
    \/ UpdCheckJersey(p)
    \/ UpdCommit(p)

RemovePlayer(p) ==
    \/ \E a \in ActorInputs, t \in TeamIdInputs, pid \in PlayerIdInputs : RemStart(p, a, t, pid)
    \/ RemCommit(p)

UpdateTeam(p) ==
    \/ \E a \in ActorInputs, t \in TeamIdInputs, tu \in TeamUpdate : TeamUpdStart(p, a, t, tu)
    \/ TeamUpdCommit(p)

CreateTeam(p) ==
    \E a \in ActorInputs : CreateTeamNew(p, a)

\* one request at a time, each run to completion
InitSeq == InitDb(TeamIds, {1}) /\ InitPerm /\ InitMem /\ InitAuth
NextSeq ==
    \/ AddPlayer(1)
    \/ UpdatePlayer(1)
    \/ RemovePlayer(1)
    \/ UpdateTeam(1)
    \/ CreateTeam(1)
SpecSeq == InitSeq /\ [][NextSeq]_vars

\* add_player, remove_player and update_team requests on one team, served by
\* several workers that share the database: their statements interleave, and
\* each statement reads what is committed when it runs
InitConc == InitDb({1}, 1..NumProcs) /\ InitPerm /\ InitMem /\ InitAuth
NextConc ==
    \E p \in 1..NumProcs :
        \/ AddPlayer(p)
        \/ RemovePlayer(p)
        \/ UpdateTeam(p)
SpecConc == InitConc /\ [][NextConc]_vars

(***************************************************************************)
(* Roster invariants                                                       *)
(***************************************************************************)
\* C1: after any sequence of add_player, update_player and remove_player calls,
\* each run to completion, no two active players of one team have the same
\* jersey number.
C1_UniqueActiveJersey ==
    \A i, j \in PlayerIds :
        (i # j /\ players[i].team_id = players[j].team_id
               /\ players[i].is_active /\ players[j].is_active)
          => players[i].jersey_number # players[j].jersey_number

\* C2: of two add_player requests for the same team and jersey number that run
\* concurrently, only one succeeds: they never both return a player and leave
\* two active players with that number.
C2_OneConcurrentAddSucceeds ==
    \A p, q \in DOMAIN req :
        ~ ( /\ p # q
            /\ q \in overlap[p] /\ p \in overlap[q]
            /\ req[p].pc = "done" /\ req[p].op = "add_player" /\ req[p].result = "ok"
            /\ req[q].pc = "done" /\ req[q].op = "add_player" /\ req[q].result = "ok"
            /\ req[p].team = req[q].team /\ req[p].num = req[q].num
            /\ {req[p].pid, req[q].pid} \subseteq JerseyHolders(req[p].team, req[p].num) )

\* C3: every team has at most max_players active players.
C3_WithinCapacity ==
    \A t \in DOMAIN teams : Cardinality(ActivePlayers(t)) <= teams[t].max_players

\* the owner membership of a team's creator
OwnerRows(t) ==
    {m \in memberships :
        m.team_id = t /\ m.user_id = teams[t].created_by /\ m.role = "owner"}

\* C10: create_team persists the team together with its creator's owner
\* membership: an authenticated call does so, and no stored team is without
\* the owner membership of its creator.
C10_TeamPersistedWithOwner ==
    /\ \A t \in DOMAIN teams : OwnerRows(t) # {}
    /\ \A p \in DOMAIN req :
          (req[p].pc = "done" /\ req[p].op = "create_team"
                              /\ req[p].result # "Unauthorized")
            => req[p].result = "ok"

\* C7: for every team the available and the taken jersey numbers together are
\* exactly 1..99 and have no number in common.
C7_AvailableTakenPartition ==
    \A t \in DOMAIN teams :
        LET r == get_available_jersey_numbers(t)
        IN  /\ Range(r.available_numbers) \cup Range(r.taken_numbers) = MinJersey..MaxJersey
            /\ Range(r.available_numbers) \cap Range(r.taken_numbers) = {}

(***************************************************************************)
(* check_team_permission as a function of its arguments and of the         *)
(* team_memberships table                                                  *)
(***************************************************************************)
\* the role lists the handlers pass (lines 157, 188, 231, 299, 348, 414, 492)
RoleLists == { {"owner"}, {"owner", "coach"}, Roles }

MembershipRows(ids) ==
    [team_id : ids, user_id : Users, role : Roles,
     is_active : BOOLEAN, approved : BOOLEAN]

\* the tables of at most k rows
RECURSIVE TablesUpTo(_, _)
TablesUpTo(k, rows) ==
    IF k = 0 THEN {{}}
    ELSE LET smaller == TablesUpTo(k - 1, rows)
         IN  smaller \cup {m \cup {r} : m \in smaller, r \in rows}

InitPermDb ==
    /\ teams = InitTeams({1})
    /\ players = << >>
    /\ memberships \in TablesUpTo(MaxMemberRows, MembershipRows({1}))
    /\ req = [p \in {1} |-> Idle]
    /\ overlap = [p \in {1} |-> {}]

CheckTeamPermission(user, t, required_roles) ==
    /\ permCall' = [user |-> user, team |-> t, required_roles |-> required_roles]
    /\ permResult' = check_team_permission(user, teams[t], required_roles)
    /\ UNCHANGED <<dbVars, req, overlap, memVars, authVars>>


NextPerm ==
    \E user \in Users, t \in DOMAIN teams, required_roles \in RoleLists :
        CheckTeamPermission(user, t, required_roles)

InitPermSpec == InitPermDb /\ InitPerm /\ InitMem /\ InitAuth
SpecPerm == InitPermSpec /\ [][NextPerm]_vars

PermCalled == permResult # "none"
CallerIsCreator == PermCalled /\ teams[permCall.team].created_by = permCall.user

\* the membership rows of the caller on the team of the call
CallerRows ==
    {m \in memberships : m.team_id = permCall.team /\ m.user_id = permCall.user}

\* C4: check_team_permission returns true for the team's creator, whatever the
\* team_memberships table holds.
C4_CreatorPermitted ==
    CallerIsCreator => permResult = "True"

\* the creator was permitted with no membership row at all
C4_Witness_NoRow ==
    CallerIsCreator /\ permResult = "True" /\ CallerRows = {}

\* C5: check_team_permission is total: it returns true or false and never fails.
C5_PermissionTotal ==
    PermCalled => permResult \in {"True", "False"}

\* C6: for a user who is not the creator, check_team_permission returns true
\* exactly when the user has an active, approved membership on the team with a
\* role among the required ones.
C6_MemberPermittedIffRole ==
    (PermCalled /\ ~CallerIsCreator) =>
        ( permResult = "True" <=>
            \E m \in CallerRows :
                m.is_active /\ m.approved /\ m.role \in permCall.required_roles )

(***************************************************************************)
(* The in-memory team store of endpoints/teams.py (the router api.py        *)
(* mounts under /teams).  Its handlers are coroutines without an await:    *)
(* each runs to completion on the event loop.                              *)
(***************************************************************************)
\* 'ABCDEFGHIJKLMNOPQRSTUVWXYZ0123456789', teams.py line 92
FullAlphabet ==
    {"A", "B", "C", "D", "E", "F", "G", "H", "I", "J", "K", "L", "M",
     "N", "O", "P", "Q", "R", "S", "T", "U", "V", "W", "X", "Y", "Z",
     "0", "1", "2", "3", "4", "5", "6", "7", "8", "9"}

\* the characters the model lets secrets.choice return
SampleChars == {"A", "B", "0"}

\* ''.join(secrets.choice(chars) for _ in range(6)): a string of 6 characters
\* of chars; of these the model draws the ones that repeat one sampled character
secrets_choice_join(chars) ==
    { [i \in 1..TeamCodeLen |-> c] : c \in chars \cap SampleChars }

\* current_user of a request (Depends(get_current_active_user)): an active row
\* of table users; this store knows a user by current_user.email
CurrentUsers ==
    {[id |-> u, email |-> users[u].email] : u \in {v \in DOMAIN users : users[v].is_active}}

MemResponse(o, res, id) == [op |-> o, result |-> res, team_id |-> id, teams |-> << >>]

\* create_team, teams.py lines 81-126
MemCreateTeam(current_user, team_code) ==
    /\ Cardinality(DOMAIN teams_db) < MaxMemTeams
    /\ LET team_id == Cardinality(DOMAIN teams_db) + 1
           new_team == [id |-> team_id, team_code |-> team_code,
                        created_by |-> current_user.email, players |-> << >>]
       IN  /\ teams_db' = (team_id :> new_team) @@ teams_db
           /\ team_members_db' = (team_id :> <<current_user.email>>) @@ team_members_db
           /\ memResp' = MemResponse("create_team", "ok", team_id)
           /\ team_user_ids' =
                 (team_id :> [creator |-> current_user.id, members |-> {current_user.id}])
                 @@ team_user_ids
    /\ UNCHANGED <<dbVars, req, overlap, permVars, authVars>>

\* for tid, team_data in teams_db.items(): the first team with the code, in
\* insertion order; 0 when there is none
FindTeamByCode(team_code) ==
    LET hits == {tid \in DOMAIN teams_db : teams_db[tid].team_code = team_code}
    IN  IF hits = {} THEN 0 ELSE Min(hits)

\* the codes a client may send to join: those in use, one in use nowhere, none
UnknownCode == [i \in 1..TeamCodeLen |-> "Z"]
JoinCodeInputs == {teams_db[tid].team_code : tid \in DOMAIN teams_db} \cup {UnknownCode, << >>}

\* a join_team without the already-a-member test of lines 158-162
MemJoinTeam_unchecked(current_user, team_code) ==
    /\ LET team_id == FindTeamByCode(team_code)
       IN  IF team_code = << >>
             THEN /\ memResp' = MemResponse("join_team", "BadRequest", 0)
                  /\ UNCHANGED <<teams_db, team_members_db, team_user_ids>>
           ELSE IF team_id = 0
             THEN /\ memResp' = MemResponse("join_team", "NotFound", 0)
                  /\ UNCHANGED <<teams_db, team_members_db, team_user_ids>>
           ELSE /\ team_members_db' =
                      [team_members_db EXCEPT ![team_id] = Append(@, current_user.email)]
                /\ memResp' = MemResponse("join_team", "ok", team_id)
                /\ team_user_ids' =
                      [team_user_ids EXCEPT ![team_id].members = @ \cup {current_user.id}]
                /\ UNCHANGED teams_db
    /\ UNCHANGED <<dbVars, req, overlap, permVars, authVars>>

\* join_team, teams.py lines 129-174
MemJoinTeam(current_user, team_code) ==
    /\ LET team_id == FindTeamByCode(team_code)
       IN  IF team_code = << >>
             THEN /\ memResp' = MemResponse("join_team", "BadRequest", 0)
                  /\ UNCHANGED <<teams_db, team_members_db, team_user_ids>>
           ELSE IF team_id = 0
             THEN /\ memResp' = MemResponse("join_team", "NotFound", 0)
                  /\ UNCHANGED <<teams_db, team_members_db, team_user_ids>>
           ELSE IF current_user.email \in Range(team_members_db[team_id])
             THEN /\ memResp' = MemResponse("join_team", "BadRequest", team_id)
                  /\ UNCHANGED <<teams_db, team_members_db, team_user_ids>>
           ELSE /\ team_members_db' =
                      [team_members_db EXCEPT ![team_id] = Append(@, current_user.email)]
                /\ memResp' = MemResponse("join_team", "ok", team_id)
                /\ team_user_ids' =
                      [team_user_ids EXCEPT ![team_id].members = @ \cup {current_user.id}]
                /\ UNCHANGED teams_db
    /\ UNCHANGED <<dbVars, req, overlap, permVars, authVars>>

\* create_team of both routers and join_team
InitTeamsSpec == InitDb(TeamIds, {1}) /\ InitPerm /\ InitMem /\ InitAuth
NextTeams ==
    \/ \E current_user \in CurrentUsers, team_code \in secrets_choice_join(FullAlphabet) :
          MemCreateTeam(current_user, team_code)
    \/ \E current_user \in CurrentUsers, team_code \in JoinCodeInputs :
          MemJoinTeam(current_user, team_code)
    \/ CreateTeam(1)
SpecTeams == InitTeamsSpec /\ [][NextTeams]_vars

\* the alphabet spec section 4.2 gives the join code
RestrictedAlphabet == FullAlphabet \ {"0", "O", "I", "1"}

\* C8: create_team called with valid input by an authenticated user returns a
\* team, and every team it returns has a team_code of 6 characters, none of
\* them 0, O, I or 1.
C8_TeamCodeWellFormed ==
    /\ \A tid \in DOMAIN teams_db :
          /\ Len(teams_db[tid].team_code) = TeamCodeLen
          /\ Range(teams_db[tid].team_code) \subseteq RestrictedAlphabet
    /\ (req[1].pc = "done" /\ req[1].op = "create_team")
          => req[1].result \in {"ok", "Unauthorized"}

\* C9: no two teams have the same team_code.
C9_TeamCodeUnique ==
    \A a, b \in DOMAIN teams_db :
        a # b => teams_db[a].team_code # teams_db[b].team_code

(***************************************************************************)
(* Identity store: resolving a bearer token to a user                      *)
(***************************************************************************)
\* db.query(UserToken).filter(UserToken.token == token).first(); the column is
\* unique, so there is at most one such row
TokenRows(token) == {r \in user_tokens : r.token = token}

\* the user a resolver gives, NoUser for None
Resolution(status, user) == [status |-> status, user |-> user]

\* a get_current_user that finds the user by the email stored in the token row
get_current_user_by_email(authorization) ==
    IF ~authorization.present THEN Resolution("Unauthorized", NoUser)
    ELSE IF ~authorization.bearer THEN Resolution("Unauthorized", NoUser)
    ELSE IF authorization.token = 0 THEN Resolution("Unauthorized", NoUser)
    ELSE IF TokenRows(authorization.token) = {} THEN Resolution("Unauthorized", NoUser)
    ELSE LET db_token == CHOOSE r \in TokenRows(authorization.token) : TRUE
             found == {u \in DOMAIN users : users[u].email = db_token.user_email}
         IN  IF found = {} THEN Resolution("Unauthorized", NoUser)
             ELSE LET user == CHOOSE u \in found : TRUE
                  IN  IF ~users[user].is_active
                        THEN Resolution("Unauthorized", NoUser)
                        ELSE Resolution("ok", user)

\* api/deps.py get_current_user, lines 31-74: 401 or the user
get_current_user(authorization) ==
    IF ~authorization.present THEN Resolution("Unauthorized", NoUser)
    ELSE IF ~authorization.bearer THEN Resolution("Unauthorized", NoUser)
    ELSE IF authorization.token = 0 THEN Resolution("Unauthorized", NoUser)
    ELSE IF TokenRows(authorization.token) = {} THEN Resolution("Unauthorized", NoUser)
    ELSE LET db_token == CHOOSE r \in TokenRows(authorization.token) : TRUE
         IN  IF db_token.user_id \notin DOMAIN users
               THEN Resolution("Unauthorized", NoUser)
             ELSE IF ~users[db_token.user_id].is_active
               THEN Resolution("Unauthorized", NoUser)
             ELSE Resolution("ok", db_token.user_id)

\* api/deps.py get_optional_current_user, lines 100-112: None or the user
get_optional_current_user(authorization) ==
    IF ~authorization.present \/ ~authorization.bearer THEN Resolution("ok", NoUser)
    ELSE IF TokenRows(authorization.token) = {} THEN Resolution("ok", NoUser)
    ELSE LET db_token == CHOOSE r \in TokenRows(authorization.token) : TRUE
         IN  IF db_token.user_id \in DOMAIN users /\ users[db_token.user_id].is_active
               THEN Resolution("ok", db_token.user_id)
               ELSE Resolution("ok", NoUser)

\* teams_new.py get_user_from_token, lines 25-37: None or the user row found;
\* is_active is not read
get_user_from_token(authorization) ==
    IF ~authorization.present \/ ~authorization.bearer THEN Resolution("ok", NoUser)
    ELSE IF TokenRows(authorization.token) = {} THEN Resolution("ok", NoUser)
    ELSE LET db_token == CHOOSE r \in TokenRows(authorization.token) : TRUE
         IN  IF db_token.user_id \in DOMAIN users
               THEN Resolution("ok", db_token.user_id)
               ELSE Resolution("ok", NoUser)

Resolvers == {"get_current_user", "get_optional_current_user", "get_user_from_token"}

resolve(resolver, authorization) ==
    CASE resolver = "get_current_user" -> get_current_user(authorization)
      [] resolver = "get_optional_current_user" -> get_optional_current_user(authorization)
      [] resolver = "get_user_from_token" -> get_user_from_token(authorization)

\* the headers a client may send: none, another scheme, an empty token, every
\* token issued, one never issued
AuthorizationInputs ==
    {NoHeader, OtherScheme} \cup {Bearer(tk) : tk \in 0..(MaxTokens + 1)}

\* one call of a resolver, with its header and its outcome
ResolveToken(p, resolver, authorization) ==
    /\ Free(p)
    /\ LET res == resolve(resolver, authorization)
       IN  req' = [req EXCEPT ![p] =
                     [Idle EXCEPT !.pc = "done", !.op = resolver, !.auth = authorization,
                                  !.result = res.status, !.uid = res.user]]
    /\ UNCHANGED <<dbVars, overlap, permVars, memVars, authVars>>

\* The tables the resolvers read.  Rows of users are written by register only,
\* but the store is a file (core/config.py line 32) that is also edited
\* directly: is_active is a column no handler writes, and the foreign key of
\* user_tokens.user_id is not enforced by SQLite, so a token row can outlive
\* its user row.
UserTables ==
    { [u \in ids |-> [UserRow(u, 1, 1) EXCEPT !.is_active = act[u]]] :
        ids \in SUBSET Users, act \in [Users -> BOOLEAN] }

RECURSIVE TokenTables(_)
TokenTables(k) ==
    IF k = 0 THEN {{}}
    ELSE LET smaller == TokenTables(k - 1)
         IN  smaller \cup
             {m \cup {[token |-> k, user_id |-> u, user_email |-> u]} :
                 m \in smaller, u \in Users}

InitResolve ==
    /\ InitDb(TeamIds, {1}) /\ InitPerm /\ InitMem
    /\ users \in UserTables
    /\ user_tokens \in TokenTables(MaxTokens)
    /\ issued = MaxTokens

NextResolve ==
    \E resolver \in Resolvers, authorization \in AuthorizationInputs :
        ResolveToken(1, resolver, authorization)

SpecResolve == InitResolve /\ [][NextResolve]_vars

\* a resolver was called with "Bearer <token>"
ResolvedBearer(p) ==
    req[p].pc = "done" /\ req[p].op \in Resolvers /\ req[p].auth.bearer

\* the token is in no row, or its user is gone, or its user is inactive
NoValidUser(token) ==
    \A r \in TokenRows(token) :
        r.user_id \notin DOMAIN users \/ ~users[r.user_id].is_active

\* C11: every resolver (get_current_user, get_optional_current_user,
\* get_user_from_token) yields no user for a token that is in no row of
\* user_tokens, or whose user row is gone, or whose user has is_active = false.
C11_NoUserForInvalidToken ==
    \A p \in DOMAIN req :
        (ResolvedBearer(p) /\ NoValidUser(req[p].auth.token)) => req[p].uid = NoUser

(***************************************************************************)
(* Identity store: the handlers of endpoints/auth.py and endpoints/users.py *)
(***************************************************************************)
\* secrets.token_urlsafe(32), auth.py lines 42-44: 32 random bytes; the model
\* takes each draw to differ from every earlier one and numbers the draws
generate_token == issued + 1

\* a users table without the unique index on email: no write is refused
email_taken_unenforced(email, uid) == FALSE

\* column users.email is unique (models/user.py line 22): the INSERT or UPDATE
\* that would give a second row this email fails with IntegrityError
email_taken_by_other(email, uid) ==
    \E u \in DOMAIN users : u # uid /\ users[u].email = email

\* Column(UUID, default=uuid.uuid4): an id no row has
new_user_id == Min({u \in 1..(Cardinality(DOMAIN users) + 1) : u \notin DOMAIN users})

\* the emails clients register and log in with
EmailInputs == 1..NumUsers

\* UserRegister bodies: an email, the name 1, the password 1
RegisterInputs ==
    {[email |-> e, full_name |-> 1, password |-> 1] : e \in EmailInputs}

PendingRegs == Cardinality({q \in DOMAIN req : req[q].pc = "reg_commit"})

\* register, auth.py lines 53-60: is the email already registered
RegStart(p, user_data) ==
    /\ Free(p)
    /\ Cardinality(DOMAIN users) + PendingRegs < NumUsers
    /\ LET r == [Idle EXCEPT !.op = "register", !.body = user_data]
       IN  req' = [req EXCEPT ![p] =
             IF \E u \in DOMAIN users : users[u].email = user_data.email
               THEN Done(r, "Conflict")
               ELSE [r EXCEPT !.pc = "reg_commit"]]
    /\ UNCHANGED <<dbVars, overlap, permVars, memVars, authVars>>

\* register, auth.py lines 62-88: INSERT and commit
RegCommit(p) ==
    /\ req[p].pc = "reg_commit"
    /\ IF email_taken_by_other(req[p].body.email, NoUser)
         THEN /\ req' = [req EXCEPT ![p] = Done(@, "InternalError")]
              /\ UNCHANGED users
         ELSE /\ users' = (new_user_id :>
                              UserRow(req[p].body.email, req[p].body.full_name,
                                      req[p].body.password)) @@ users
              /\ req' = [req EXCEPT ![p] = Done(@, "ok")]
    /\ UNCHANGED <<dbVars, overlap, permVars, memVars, user_tokens, issued>>

PasswordInputs == {1, 2}

\* a login that does not compare the password hashes
Login_any_password(p, email, password) ==
    /\ Free(p)
    /\ issued < MaxTokens
    /\ LET r == [Idle EXCEPT !.op = "login"]
           found == {u \in DOMAIN users : users[u].email = email}
           user == CHOOSE u \in found : TRUE
       IN  IF found = {}
             THEN /\ req' = [req EXCEPT ![p] = Done(r, "Unauthorized")]
                  /\ UNCHANGED <<user_tokens, issued>>
             ELSE /\ user_tokens' = user_tokens \cup
                        {[token |-> generate_token, user_id |-> user, user_email |-> email]}
                  /\ issued' = issued + 1
                  /\ req' = [req EXCEPT ![p] = Done(r, "ok")]
    /\ UNCHANGED <<dbVars, overlap, permVars, memVars, users>>

\* login, auth.py lines 96-142: the user by email, the password, a new token
\* row; one statement reads, one commit writes, and nothing the handler read
\* is written by another handler in between except the email it copies
Login(p, email, password) ==
    /\ Free(p)
    /\ issued < MaxTokens
    /\ LET r == [Idle EXCEPT !.op = "login"]
           found == {u \in DOMAIN users : users[u].email = email}
           user == CHOOSE u \in found : TRUE
       IN  IF found = {} \/ users[user].hashed_password # hash_password(password)
             THEN /\ req' = [req EXCEPT ![p] = Done(r, "Unauthorized")]
                  /\ UNCHANGED <<user_tokens, issued>>
             ELSE /\ user_tokens' = user_tokens \cup
                        {[token |-> generate_token, user_id |-> user, user_email |-> email]}
                  /\ issued' = issued + 1
                  /\ req' = [req EXCEPT ![p] = Done(r, "ok")]
    /\ UNCHANGED <<dbVars, overlap, permVars, memVars, users>>

\* a logout that deletes every token row of the token's user
delete_token_of_user(token) ==
    {r \in user_tokens : \A d \in TokenRows(token) : r.user_id # d.user_id}

\* logout that commits without the delete
delete_token_skipped(token) == user_tokens

\* db.delete(db_token); db.commit(), auth.py lines 168-169
delete_token(token) == user_tokens \ TokenRows(token)

\* the token query parameter: none (0), every token issued, one never issued
TokenInputs == 0..(MaxTokens + 1)

\* logout, auth.py lines 152-164: the parameter and the token row
LogoutStart(p, token) ==
    /\ Free(p)
    /\ LET r == [Idle EXCEPT !.op = "logout", !.token = token]
       IN  req' = [req EXCEPT ![p] =
             IF token = 0 THEN Done(r, "InvalidInput")
             ELSE IF TokenRows(token) = {} THEN Done(r, "Unauthorized")
             ELSE [r EXCEPT !.pc = "logout_commit"]]
    /\ UNCHANGED <<dbVars, overlap, permVars, memVars, authVars>>

\* logout, auth.py lines 166-174
LogoutCommit(p) ==
    /\ req[p].pc = "logout_commit"
    /\ user_tokens' = delete_token(req[p].token)
    /\ req' = [req EXCEPT ![p] = Done(@, "ok")]
    /\ UNCHANGED <<dbVars, overlap, permVars, memVars, users, issued>>

\* UserUpdateRequest bodies: full_name and email, each absent (0) or given
ProfileInputs ==
    {[email |-> e, full_name |-> n, password |-> 0] :
        e \in {0} \cup EmailInputs, n \in {0, 2}}

\* the attributes of the current_user object after lines 50-51
dirty_user(r) ==
    [email |-> r.urow.email,
     full_name |-> IF r.body.full_name # 0 THEN r.body.full_name ELSE r.urow.full_name]

\* a session that writes its objects out when it is closed
session_close_flushing(uid, attrs) ==
    [users EXCEPT ![uid].full_name = attrs.full_name, ![uid].email = attrs.email]

\* get_db, core/database.py lines 57-62: the HTTPException leaves the handler,
\* the session is rolled back and closed, and the attributes set on its
\* objects but never committed are dropped
session_close(uid, attrs) == users

\* update_current_user_profile, users.py lines 40-52: the current user, then
\* full_name is set on the loaded object
ProfStart(p, authorization, user_update) ==
    /\ Free(p)
    /\ LET r == [Idle EXCEPT !.op = "update_profile", !.body = user_update]
           res == get_current_user(authorization)
       IN  req' = [req EXCEPT ![p] =
             IF res.status # "ok" THEN Done(r, "Unauthorized")
             ELSE [r EXCEPT !.uid = res.user,
                            !.urow = [email |-> users[res.user].email,
                                      full_name |-> users[res.user].full_name],
                            !.pc = IF user_update.email # 0
                                     THEN "prof_check" ELSE "prof_commit"]]
    /\ UNCHANGED <<dbVars, overlap, permVars, memVars, authVars>>

\* users.py lines 54-68: is the email taken by another user
ProfCheckEmail(p) ==
    /\ req[p].pc = "prof_check"
    /\ IF \E u \in DOMAIN users : u # req[p].uid /\ users[u].email = req[p].body.email
         THEN /\ users' = session_close(req[p].uid, dirty_user(req[p]))
              /\ req' = [req EXCEPT ![p] =
                            [Done(req[p], "Conflict") EXCEPT !.body = req[p].body]]
         ELSE /\ req' = [req EXCEPT ![p].pc = "prof_commit"]
              /\ UNCHANGED users
    /\ UNCHANGED <<dbVars, overlap, permVars, memVars, user_tokens, issued>>

\* users.py lines 70-81: the UPDATE carries the columns whose value differs
\* from the loaded one; commit
ProfCommit(p) ==
    /\ req[p].pc = "prof_commit"
    /\ LET r == req[p]
           new_email == IF r.body.email # 0 /\ r.body.email # r.urow.email
                          THEN r.body.email ELSE users[r.uid].email
           new_name == IF r.body.full_name # 0 /\ r.body.full_name # r.urow.full_name
                         THEN r.body.full_name ELSE users[r.uid].full_name
       IN  IF new_email # users[r.uid].email /\ email_taken_by_other(new_email, r.uid)
             THEN /\ req' = [req EXCEPT ![p] = Done(@, "InternalError")]
                  /\ UNCHANGED users
             ELSE /\ users' = [users EXCEPT ![r.uid].email = new_email,
                                             ![r.uid].full_name = new_name]
                  /\ req' = [req EXCEPT ![p] = Done(@, "ok")]
    /\ UNCHANGED <<dbVars, overlap, permVars, memVars, user_tokens, issued>>

Register(p) ==
    \/ \E user_data \in RegisterInputs : RegStart(p, user_data)
    \/ RegCommit(p)

Logout(p) ==
    \/ \E token \in TokenInputs : LogoutStart(p, token)
    \/ LogoutCommit(p)

UpdateProfile(p) ==
    \/ \E authorization \in AuthorizationInputs, user_update \in ProfileInputs :
          ProfStart(p, authorization, user_update)
    \/ ProfCheckEmail(p)
    \/ ProfCommit(p)

\* profile updates that send an email only
UpdateEmail(p) ==
    \/ \E authorization \in AuthorizationInputs,
          user_update \in {b \in ProfileInputs : b.full_name = 0} :
          ProfStart(p, authorization, user_update)
    \/ ProfCheckEmail(p)
    \/ ProfCommit(p)

LoginAs(p) ==
    \E email \in EmailInputs, password \in PasswordInputs : Login(p, email, password)

\* a database without accounts and without tokens
InitNoAccounts(procs) ==
    /\ InitDb({1}, procs) /\ InitPerm /\ InitMem
    /\ users = << >>
    /\ user_tokens = {}
    /\ issued = 0

\* register, login and email updates served by several workers on one
\* database: their statements interleave
InitUsers == InitNoAccounts(1..NumProcs)

NextUsers ==
    \E p \in 1..NumProcs :
        \/ Register(p)
        \/ LoginAs(p)
        \/ UpdateEmail(p)

SpecUsers == InitUsers /\ [][NextUsers]_vars

\* the same handlers, one request at a time, each run to completion
InitAuthSeq == InitNoAccounts({1})

NextAuthSeq ==
    \/ Register(1)
    \/ LoginAs(1)
    \/ Logout(1)
    \/ UpdateProfile(1)

SpecAuth == InitAuthSeq /\ [][NextAuthSeq]_vars

\* no resolver gives a user for "Bearer <token>"
Unresolvable(token) ==
    \A resolver \in Resolvers : resolve(resolver, Bearer(token)).user = NoUser

\* C12: a logout that succeeds deletes the token row, and from then on no
\* resolver gives a user for that token; a logout of a token that is in no row
\* answers 401 (invalid token) and leaves user_tokens as it was.
C12_LogoutRevokes ==
    [][ /\ \A p \in DOMAIN req, tk \in TokenInputs :
             (LogoutCommit(p) /\ req[p].token = tk)
                => /\ req'[p].result = "ok"
                   /\ (TokenRows(tk) = {})'
                   /\ Unresolvable(tk)'
        /\ \A tk \in 1..issued :
             TokenRows(tk) = {} => ((TokenRows(tk) = {})' /\ Unresolvable(tk)')
        /\ \A p \in DOMAIN req, tk \in TokenInputs \ {0} :
             (LogoutStart(p, tk) /\ TokenRows(tk) = {})
                => (req'[p].result = "Unauthorized" /\ user_tokens' = user_tokens)
      ]_vars

\* a token was issued to a user, logout has deleted it, and the user has
\* logged in again since
C12_Witness_Revoked ==
    /\ \E tk \in 1..issued : TokenRows(tk) = {}
    /\ user_tokens # {}

(***************************************************************************)
(* Listing the teams of a user                                             *)
(***************************************************************************)
\* teams_new.py get_my_teams, lines 121-133: the teams joined to an active
\* membership row of the user, the teams the user created, and the values of
\* the dict that keys both lists by team id
get_my_teams(user) ==
    LET member_teams == {m.team_id : m \in {r \in memberships :
                            r.user_id = user /\ r.is_active /\ r.team_id \in DOMAIN teams}}
        created_teams == {t \in DOMAIN teams : teams[t].created_by = user}
    IN  member_teams \cup created_teams

GetMyTeamsNew(p, actor) ==
    /\ Free(p)
    /\ Began(p)
    /\ LET r == [Idle EXCEPT !.op = "get_my_teams"]
       IN  req' = [req EXCEPT ![p] =
             IF actor = NoUser THEN Done(r, "Unauthorized")
             ELSE [Done(r, "ok") EXCEPT !.listed = get_my_teams(actor)]]
    /\ UNCHANGED <<dbVars, permVars, memVars, authVars>>

\* teams.py get_my_teams, lines 66-78: the teams of teams_db, in insertion
\* order, that current_user.email created or is a member of
RECURSIVE user_teams(_, _)
user_teams(current_user, k) ==
    IF k = 0 THEN << >>
    ELSE user_teams(current_user, k - 1) \o
         (IF teams_db[k].created_by = current_user.email
               \/ current_user.email \in Range(team_members_db[k])
            THEN << [id |-> k,
                     role |-> IF teams_db[k].created_by = current_user.email
                                THEN "creator" ELSE "member"] >>
            ELSE << >>)

MemGetMyTeams(current_user) ==
    /\ memResp' = [MemResponse("get_my_teams", "ok", 0) EXCEPT
                     !.teams = user_teams(current_user, Cardinality(DOMAIN teams_db))]
    /\ UNCHANGED <<teams_db, team_members_db, team_user_ids>>
    /\ UNCHANGED <<dbVars, req, overlap, permVars, authVars>>

\* one account, logged in, on both stores
InitList ==
    /\ InitDb({1}, {1}) /\ InitPerm /\ InitMem
    /\ users = (1 :> UserRow(1, 1, 1))
    /\ user_tokens = {[token |-> 1, user_id |-> 1, user_email |-> 1]}
    /\ issued = 1

\* accounts are registered and change their email; teams are created, joined
\* and listed
NextList ==
    \/ Register(1)
    \/ UpdateEmail(1)
    \/ \E current_user \in CurrentUsers, team_code \in secrets_choice_join({"A"}) :
          MemCreateTeam(current_user, team_code)
    \/ \E current_user \in CurrentUsers, team_code \in JoinCodeInputs :
          MemJoinTeam(current_user, team_code)
    \/ \E current_user \in CurrentUsers : MemGetMyTeams(current_user)
    \/ \E actor \in ActorInputs : GetMyTeamsNew(1, actor)

SpecList == InitList /\ [][NextList]_vars

\* the teams of the in-memory store that user id created or joined
TeamsOfUser(id) ==
    {t \in DOMAIN team_user_ids :
        team_user_ids[t].creator = id \/ id \in team_user_ids[t].members}

\* the teams of the database that user created or has an active membership on
DbTeamsOfUser(user) ==
    {t \in DOMAIN teams :
        \/ teams[t].created_by = user
        \/ \E m \in memberships : m.team_id = t /\ m.user_id = user /\ m.is_active}

\* C13: get_my_teams returns exactly the teams the user created or is an
\* active member of, each once (both routers).
C13_ListsExactlyUsersTeams ==
    [][ /\ \A current_user \in CurrentUsers :
             MemGetMyTeams(current_user)
                => /\ {memResp'.teams[i].id : i \in DOMAIN memResp'.teams}
                        = TeamsOfUser(current_user.id)
                   /\ Len(memResp'.teams) = Cardinality(TeamsOfUser(current_user.id))
        /\ \A actor \in Users :
             GetMyTeamsNew(1, actor) => req'[1].listed = DbTeamsOfUser(actor)
      ]_vars

(***************************************************************************)
(* Who may change a team and its roster                                    *)
(***************************************************************************)
\* the team's creator, or a user with an active, approved membership on the
\* team in one of the roles
HoldsRole(user, t, roles) ==
    \/ teams[t].created_by = user
    \/ \E m \in memberships :
          /\ m.team_id = t /\ m.user_id = user
          /\ m.is_active /\ m.approved /\ m.role \in roles

\* the request of proc 1 went past the permission test
Admitted == req'[1].pc # "done"

\* the request of proc 1 was answered 403 and nothing was written
Refused == req'[1].pc = "done" /\ req'[1].result = "Forbidden" /\ UNCHANGED dbVars

\* C14: add_player, update_player and update_team go ahead only for the
\* creator or an active approved owner or coach, remove_player only for the
\* creator or an active approved owner; any other user is answered Forbidden
\* and the team and its players stay as they were.
C14_MutationsNeedRole ==
    [][ \A actor \in Users, t \in DOMAIN teams :
          /\ \A n \in NumberInputs :
               AddStart(1, actor, t, n)
                 => /\ Admitted => HoldsRole(actor, t, {"owner", "coach"})
                    /\ (validate_jersey_number(n) /\ ~HoldsRole(actor, t, {"owner", "coach"}))
                          => Refused
          /\ \A pid \in PlayerIdInputs, u \in PlayerUpdate :
               UpdStart(1, actor, t, pid, u)
                 => /\ Admitted => HoldsRole(actor, t, {"owner", "coach"})
                    /\ (PlayerFound(t, pid) /\ ~HoldsRole(actor, t, {"owner", "coach"}))
                          => Refused
          /\ \A pid \in PlayerIdInputs :
               RemStart(1, actor, t, pid)
                 => /\ Admitted => HoldsRole(actor, t, {"owner"})
                    /\ (PlayerFound(t, pid) /\ ~HoldsRole(actor, t, {"owner"}))
                          => Refused
          /\ \A tu \in TeamUpdate :
               TeamUpdStart(1, actor, t, tu)
                 => /\ Admitted => HoldsRole(actor, t, {"owner", "coach"})
                    /\ ~HoldsRole(actor, t, {"owner", "coach"}) => Refused
      ]_vars

(***************************************************************************)
(* Reading a team                                                          *)
(***************************************************************************)
\* teams_new.py get_team, lines 143-163: authentication, team lookup,
\* permission for every role, the team
GetTeamNew(p, actor, t) ==
    /\ Free(p)
    /\ LET r == Request("get_team", t, 0, 0, NoUpd, NoTeamUpd)
       IN req' = [req EXCEPT ![p] =
            IF actor = NoUser THEN Done(r, "Unauthorized")
            ELSE IF t \notin DOMAIN teams THEN Done(r, "NotFound")
            ELSE LET perm == check_team_permission(actor, teams[t],
                                 {"owner", "coach", "parent", "viewer"})
                 IN IF perm = "NameError" THEN Done(r, "InternalError")
                    ELSE IF perm = "False" THEN Done(r, "Forbidden")
                    ELSE Returned(r, t, 0, 0)]
    /\ UNCHANGED <<dbVars, overlap, permVars, memVars, authVars>>

GetTeam(p) ==
    \E actor \in ActorInputs, t \in TeamIdInputs : GetTeamNew(p, actor, t)

\* get_team requests against every team_memberships table of InitPermDb
InitRead == InitPermDb /\ InitPerm /\ InitMem /\ InitAuth
NextRead == GetTeam(1)
SpecRead == InitRead /\ [][NextRead]_vars

\* the membership rows of user on team t
RowsOf(user, t) == {m \in memberships : m.team_id = t /\ m.user_id = user}

\* C15: a user who did not create the team and has no membership on it gets
\* Forbidden from get_team; with an active, approved viewer membership the
\* same request returns the team.
C15_ViewerReadsTeam ==
    [][ \A actor \in Users, t \in DOMAIN teams :
          (GetTeamNew(1, actor, t) /\ teams[t].created_by # actor)
            => /\ RowsOf(actor, t) = {} => req'[1].result = "Forbidden"
               /\ (\E m \in RowsOf(actor, t) :
                      m.is_active /\ m.approved /\ m.role = "viewer")
                    => (req'[1].result = "ok" /\ req'[1].team = t)
      ]_vars

(***************************************************************************)
(* Requests that are answered with an error                                *)
(***************************************************************************)
\* one account, logged in, and one team: accounts are registered and updated,
\* players are added and updated, one request at a time
InitErr == InitList

NextErr ==
    \/ Register(1)
    \/ UpdateProfile(1)
    \/ AddPlayer(1)
    \/ UpdatePlayer(1)

SpecErr == InitErr /\ [][NextErr]_vars

\* everything that is persisted
stores == <<teams, players, memberships, users, user_tokens>>

\* the step ends a request with this kind of answer
Ends(kind) ==
    \E p \in DOMAIN req :
        req'[p] # req[p] /\ req'[p].pc = "done" /\ (req'[p].result = "ok") = (kind = "ok")

EmailRegistered(email) == \E u \in DOMAIN users : users[u].email = email

EmailsUnique ==
    \A u, v \in DOMAIN users : u # v => users[u].email # users[v].email

\* C17: no two rows of users have the same email, whatever register and
\* profile-update requests ran and however their statements interleaved; a
\* register for an email that is already in users fails and adds no row.
C17_UniqueEmails ==
    /\ []EmailsUnique
    /\ [][ \A p \in DOMAIN req :
             /\ \A user_data \in RegisterInputs :
                  (RegStart(p, user_data) /\ EmailRegistered(user_data.email))
                     => (req'[p].result = "Conflict" /\ users' = users)
             /\ (RegCommit(p) /\ EmailRegistered(req[p].body.email))
                     => (req'[p].result \notin {"ok", "none"} /\ users' = users)
         ]_vars

\* two accounts are registered, and a request that had passed its own email
\* check lost to a concurrent one at commit
C17_Witness_RaceLost ==
    /\ Cardinality(DOMAIN users) = NumUsers
    /\ \E p \in DOMAIN req :
          req[p].pc = "done" /\ req[p].op \in {"register", "update_profile"}
                             /\ req[p].result = "InternalError"

(***************************************************************************)
(* Jersey numbers of removed players                                       *)
(***************************************************************************)
\* the step answers an add_player that directly followed the remove_player of
\* a player with the same team and number
AnswersAddAfterRemove ==
    /\ InFlight(1) /\ req[1].op = "add_player" /\ req[1].freed
    /\ req'[1].pc = "done"

\* C18: an add_player that directly follows a successful remove_player, for
\* the same team and the removed player's jersey number and by a user with the
\* owner or coach role, succeeds; and add_player answers Conflict for no number
\* that only inactive players hold.
C18_RemovedNumberIsFree ==
    [][ /\ \A actor \in Users, t \in DOMAIN teams, n \in NumberInputs :
             (AddStart(1, actor, t, n) /\ JustRemoved(1, t, n)
                                       /\ HoldsRole(actor, t, {"owner", "coach"}))
                => Admitted
        /\ AnswersAddAfterRemove => req'[1].result = "ok"
        /\ (AddCheckJersey(1) /\ JerseyHolders(req[1].team, req[1].num) = {})
                => req'[1].result # "Conflict"
      ]_vars

(***************************************************************************)
(* add_player with a number that is taken                                  *)
(***************************************************************************)
\* the players of all teams of teams_db
MemPlayerCount ==
    LET RECURSIVE total(_)
        total(k) == IF k = 0 THEN 0 ELSE Len(teams_db[k].players) + total(k - 1)
    IN  total(Cardinality(DOMAIN teams_db))

MemTeamIdInputs == 1..MaxMemTeams

\* teams.py add_player, lines 204-251: team lookup, creator test, the numbers
\* of the team's players, append
MemAddPlayer(current_user, team_id, number) ==
    /\ MemPlayerCount < MaxRows
    /\ IF team_id \notin DOMAIN teams_db
         THEN /\ memResp' = MemResponse("add_player", "NotFound", team_id)
              /\ UNCHANGED teams_db
       ELSE IF teams_db[team_id].created_by # current_user.email
         THEN /\ memResp' = MemResponse("add_player", "Forbidden", team_id)
              /\ UNCHANGED teams_db
       ELSE IF \E i \in DOMAIN teams_db[team_id].players :
                  teams_db[team_id].players[i].number = number
         THEN /\ memResp' = MemResponse("add_player", "Conflict", team_id)
              /\ UNCHANGED teams_db
       ELSE /\ teams_db' = [teams_db EXCEPT ![team_id].players =
                               Append(@, [number |-> number])]
            /\ memResp' = MemResponse("add_player", "ok", team_id)
    /\ UNCHANGED <<team_members_db, team_user_ids>>
    /\ UNCHANGED <<dbVars, req, overlap, permVars, authVars>>

\* rosters of both stores, one request at a time
InitJersey == InitList

NextJersey ==
    \/ AddPlayer(1)
    \/ RemovePlayer(1)
    \/ \E current_user \in CurrentUsers, team_code \in secrets_choice_join({"A"}) :
          MemCreateTeam(current_user, team_code)
    \/ \E current_user \in CurrentUsers, team_id \in MemTeamIdInputs, number \in NumberInputs :
          MemAddPlayer(current_user, team_id, number)

SpecJersey == InitJersey /\ [][NextJersey]_vars

\* an active player of team t has jersey number n
HeldByActive(t, n) ==
    \E i \in PlayerIds :
        players[i].team_id = t /\ players[i].is_active /\ players[i].jersey_number = n

\* C19: an add_player by a user who may add players, for a jersey number that
\* an active player of the team holds, reaches the jersey test, is answered
\* with the jersey-taken Conflict and adds no player row (both routers).
C19_TakenNumberConflicts ==
    [][ /\ \A actor \in Users, t \in DOMAIN teams, n \in NumberInputs :
             (AddStart(1, actor, t, n) /\ HeldByActive(t, n)
                                       /\ HoldsRole(actor, t, {"owner", "coach"}))
                => Admitted
        /\ (AddCheckJersey(1) /\ HeldByActive(req[1].team, req[1].num))
                => /\ req'[1].pc = "done" /\ req'[1].result = "Conflict"
                   /\ players' = players
        /\ \A current_user \in CurrentUsers, team_id \in DOMAIN teams_db, number \in NumberInputs :
             ( /\ MemAddPlayer(current_user, team_id, number)
               /\ teams_db[team_id].created_by = current_user.email
               /\ \E i \in DOMAIN teams_db[team_id].players :
                     teams_db[team_id].players[i].number = number )
                => (memResp'.result = "Conflict" /\ teams_db' = teams_db)
      ]_vars

(***************************************************************************)
(* Join-code generation when the drawn code is in use                      *)
(***************************************************************************)
\* a team of teams_db has this join code
CodeInUse(team_code) ==
    \E tid \in DOMAIN teams_db : teams_db[tid].team_code = team_code

\* C20: join-code generation in create_team compares what it draws with the
\* codes in use, makes a bounded number of draws, and when the draws it made
\* all collide it ends with a generation failure: no create_team answers ok
\* and stores a team under a code that another team has.
C20_CollidingCodeFails ==
    [][ \A current_user \in CurrentUsers, team_code \in secrets_choice_join(FullAlphabet) :
            (MemCreateTeam(current_user, team_code) /\ CodeInUse(team_code))
                => (memResp'.result # "ok" /\ teams_db' = teams_db)
      ]_vars

(***************************************************************************)
(* update_player and the player's own jersey number                        *)
(***************************************************************************)
\* an active player of team t other than pid has jersey number n
HeldByOtherActive(t, n, pid) ==
    \E i \in PlayerIds \ {pid} :
        players[i].team_id = t /\ players[i].is_active /\ players[i].jersey_number = n

\* C21: an update_player that sends jersey_number, by a user who may update
\* players, reaches the jersey test; there the player's own row does not count:
\* the number the player already has goes through and the update succeeds,
\* and a number that another active player of the team holds is answered
\* Conflict with no player changed.
C21_OwnRowExcluded ==
    [][ /\ \A actor \in Users, t \in DOMAIN teams, pid \in PlayerIdInputs, u \in PlayerUpdate :
             ( /\ UpdStart(1, actor, t, pid, u)
               /\ u.has_jersey /\ PlayerFound(t, pid)
               /\ HoldsRole(actor, t, {"owner", "coach"}) )
                => Admitted
        /\ ( /\ UpdCheckJersey(1)
             /\ HeldByOtherActive(req[1].team, req[1].upd.jersey_number, req[1].pid) )
                => /\ req'[1].pc = "done" /\ req'[1].result = "Conflict"
                   /\ players' = players
        /\ ( /\ UpdCheckJersey(1)
             /\ req[1].upd.jersey_number = players[req[1].pid].jersey_number
             /\ ~HeldByOtherActive(req[1].team, req[1].upd.jersey_number, req[1].pid) )
                => req'[1].pc = "upd_commit"
        /\ UpdCommit(1) => req'[1].result = "ok"
      ]_vars

(***************************************************************************)
(* remove_player is a soft delete                                          *)
(***************************************************************************)
\* a step of a remove_player request of proc p
RemoveStep(p) == req'[p] # req[p] /\ req'[p].op = "remove_player"

ResolvesToOwner(r) ==
    \A resolver \in Resolvers :
        LET res == resolve(resolver, Bearer(r.token))
        IN  res.status = "ok" /\ res.user = r.user_id

\* the user of token row r exists and is active
OwnerActive(r) == r.user_id \in DOMAIN users /\ users[r.user_id].is_active

\* C23: a token row written by login stays in user_tokens until a logout for
\* that token deletes it, and while it is there every resolver gives its user
\* for it, as long as that user exists and is active; nothing else ends a
\* token (the rows carry no expiry or revocation that a resolver reads).
C23_TokenValidUntilLogout ==
    /\ [](\A r \in user_tokens : OwnerActive(r) => ResolvesToOwner(r))
    /\ [][ \A r \in user_tokens :
              \/ r \in user_tokens'
              \/ \E p \in DOMAIN req : LogoutCommit(p) /\ req[p].token = r.token
         ]_vars

\* a token of a user who has changed their email since that login, kept while
\* another token was issued and deleted by logout
C23_Witness_OldTokenResolves ==
    \E r \in user_tokens :
        /\ OwnerActive(r) /\ ResolvesToOwner(r)
        /\ users[r.user_id].email # r.user_email
        /\ r.token < issued
        /\ \E tk \in 1..issued : TokenRows(tk) = {}

(***************************************************************************)
(* login and the token table                                               *)
(***************************************************************************)
\* the users whose email and stored password hash are those of the credentials
Matching(email, password) ==
    {u \in DOMAIN users : /\ users[u].email = email
                          /\ users[u].hashed_password.sha256 = password}

\* C24: a login with the email of a user and the password whose hash is stored
\* for that user adds exactly one row to user_tokens, with a token no row had
\* and that user's id; a login with an unknown email or another password is
\* answered 401 and leaves user_tokens as it was; and no other step adds a row.
C24_LoginNeedsCredentials ==
    [][ /\ \A p \in DOMAIN req, email \in EmailInputs, password \in PasswordInputs :
             Login(p, email, password) =>
                IF Matching(email, password) # {}
                  THEN /\ req'[p].result = "ok"
                       /\ \E r \in user_tokens' \ user_tokens :
                             /\ user_tokens' = user_tokens \cup {r}
                             /\ r.user_id \in Matching(email, password)
                             /\ TokenRows(r.token) = {}
                  ELSE /\ req'[p].result = "Unauthorized"
                       /\ user_tokens' = user_tokens
        /\ (user_tokens' \ user_tokens # {})
              => \E p \in DOMAIN req, email \in EmailInputs, password \in PasswordInputs :
                    Login(p, email, password)
      ]_vars

\* every email a client may send is registered, a login has put a token in
\* the table, and the latest login was refused: its password was wrong
C24_Witness_WrongPassword ==
    /\ {users[u].email : u \in DOMAIN users} = EmailInputs
    /\ user_tokens # {}
    /\ req[1].pc = "done" /\ req[1].op = "login" /\ req[1].result = "Unauthorized"

(***************************************************************************)
(* Columns of a team that no handler writes                                *)
(***************************************************************************)
\* C25: no step removes a team or changes the team_code or the created_by of
\* a team that exists; an update_team writes the TeamUpdate fields only.
C25_CodeAndCreatorFixed ==
    [][ \A t \in DOMAIN teams :
           /\ t \in DOMAIN teams'
           /\ teams'[t].team_code = teams[t].team_code
           /\ teams'[t].created_by = teams[t].created_by
      ]_vars

\* an update_team has succeeded and changed max_players of a team, which has
\* the team_code and the creator it was created with
C25_Witness_TeamUpdated ==
    /\ req[1].pc = "done" /\ req[1].op = "update_team" /\ req[1].result = "ok"
    /\ teams[req[1].team].max_players # MaxCap
    /\ teams[req[1].team].team_code = InitTeams(TeamIds)[req[1].team].team_code
    /\ teams[req[1].team].created_by = InitTeams(TeamIds)[req[1].team].created_by

(***************************************************************************)
(* A player addressed through a team that is not its own                   *)
(***************************************************************************)
\* the rosters after the creator of each team has added one player
InitCross ==
    /\ teams = InitTeams(TeamIds)
    /\ players = [i \in TeamIds |-> [team_id |-> i, jersey_number |-> 1, is_active |-> TRUE]]
    /\ memberships = InitMemberships(TeamIds)
    /\ req = [p \in {1} |-> Idle]
    /\ overlap = [p \in {1} |-> {}]
    /\ InitPerm /\ InitMem /\ InitAuth

\* update_player and remove_player requests, one at a time
NextCross ==
    \/ UpdatePlayer(1)
    \/ RemovePlayer(1)

SpecCross == InitCross /\ [][NextCross]_vars

\* the answer of proc 1 is 404 and no player row is written
NotFoundUnchanged ==
    req'[1].pc = "done" /\ req'[1].result = "NotFound" /\ players' = players

\* C26: no step changes the team_id of a player, and an update_player or
\* remove_player of an authenticated user that names an existing team and a
\* player of another team is answered NotFound and writes no player row, also
\* for the creator of the team named.
C26_PlayerStaysInTeam ==
    [][ /\ \A i \in PlayerIds : players'[i].team_id = players[i].team_id
        /\ \A t \in DOMAIN teams, pid \in PlayerIds :
              players[pid].team_id # t =>
                 /\ \A actor \in Users, u \in PlayerUpdate :
                       UpdStart(1, actor, t, pid, u) => NotFoundUnchanged
                 /\ \A actor \in Users :
                       RemStart(1, actor, t, pid) => NotFoundUnchanged
      ]_vars

\* an update_player or remove_player has been answered 404 (requests that name
\* the other team's player are answered so) and both players are as they were
C26_Witness_CrossTeamNotFound ==
    /\ req[1].pc = "done" /\ req[1].op \in {"update_player", "remove_player"}
    /\ req[1].result = "NotFound"
    /\ players = [i \in TeamIds |-> [team_id |-> i, jersey_number |-> 1, is_active |-> TRUE]]

(***************************************************************************)
(* Several tokens of one user                                              *)
(***************************************************************************)
\* C27: a login keeps every token row there is (so a user who logs in again
\* holds several tokens), and a logout deletes the rows of its token and no
\* other: every other token, of the same user or of another one, is still in
\* the table and every resolver still gives its user for it.
C27_LogoutDeletesOneToken ==
    [][ /\ \A p \in DOMAIN req, email \in EmailInputs, password \in PasswordInputs :
             Login(p, email, password) => user_tokens \subseteq user_tokens'
        /\ \A p \in DOMAIN req, tk \in TokenInputs :
             (LogoutCommit(p) /\ req[p].token = tk) =>
                /\ user_tokens' = {r \in user_tokens : r.token # tk}
                /\ \A r \in user_tokens :
                      (r.token # tk /\ OwnerActive(r)) => ResolvesToOwner(r)'
      ]_vars

\* the one registered user logged in twice and has logged out of one of the
\* two tokens; the other token is in the table and resolves to the user
C27_Witness_OtherTokenKept ==
    /\ Len(users) = 1 /\ issued = 2
    /\ req[1].pc = "done" /\ req[1].op = "logout" /\ req[1].result = "ok"
    /\ \E r \in user_tokens : user_tokens = {r} /\ ResolvesToOwner(r)

(***************************************************************************)
(* The in-memory store of teams.py: teams, members and rosters             *)
(***************************************************************************)
\* create_team, join_team and add_player of teams.py by the registered users;
\* the handlers have no await, so each runs to completion
InitMemStore == InitDb(TeamIds, {1}) /\ InitPerm /\ InitMem /\ InitAuth

NextMemStore ==
    \/ \E current_user \in CurrentUsers, team_code \in secrets_choice_join(FullAlphabet) :
          MemCreateTeam(current_user, team_code)
    \/ \E current_user \in CurrentUsers, team_code \in JoinCodeInputs :
          MemJoinTeam(current_user, team_code)
    \/ \E current_user \in CurrentUsers, team_id \in MemTeamIdInputs, number \in NumberInputs :
          MemAddPlayer(current_user, team_id, number)

SpecMemStore == InitMemStore /\ [][NextMemStore]_vars

\* no element of sequence s occurs twice
NoDuplicates(s) == \A i, j \in DOMAIN s : i # j => s[i] # s[j]

\* every team is stored under its own id, its member list has its creator and
\* no email twice, and its players have different numbers
MemStoreConsistent ==
    \A tid \in DOMAIN teams_db :
        /\ teams_db[tid].id = tid
        /\ tid \in DOMAIN team_members_db
        /\ teams_db[tid].created_by \in Range(team_members_db[tid])
        /\ NoDuplicates(team_members_db[tid])
        /\ NoDuplicates([i \in DOMAIN teams_db[tid].players |->
                            teams_db[tid].players[i].number])

\* C28: in the store of teams.py, every team keeps its id, member lists hold
\* the creator and no email twice, and the players of a team have different
\* numbers; a create_team adds a team under a new id and leaves the others as
\* they were; an add_player by a member who is not the creator is answered
\* Forbidden and leaves the roster as it was.
C28_MemStoreInvariants ==
    /\ []MemStoreConsistent
    /\ [][ /\ \A tid \in DOMAIN teams_db :
                /\ tid \in DOMAIN teams_db'
                /\ memResp'.op = "create_team" => teams_db'[tid] = teams_db[tid]
           /\ \A current_user \in CurrentUsers, team_id \in DOMAIN teams_db,
                 number \in NumberInputs :
                ( /\ MemAddPlayer(current_user, team_id, number)
                  /\ current_user.email \in Range(team_members_db[team_id])
                  /\ teams_db[team_id].created_by # current_user.email )
                   => (memResp'.result = "Forbidden" /\ teams_db' = teams_db)
         ]_vars

\* a team has its creator and a second member and one player, and the add_player
\* answered last was refused
C28_Witness_MemberRefused ==
    /\ memResp.op = "add_player" /\ memResp.result = "Forbidden"
    /\ memResp.team_id \in DOMAIN teams_db
    /\ Len(team_members_db[memResp.team_id]) = 2
    /\ Len(teams_db[memResp.team_id].players) = 1

(***************************************************************************)
(* Access to a team of teams.py after an email change                      *)
(***************************************************************************)
\* get_team, teams.py lines 177-201: the team, for its creator and its members
MemGetTeam(current_user, team_id) ==
    /\ memResp' =
          IF team_id \notin DOMAIN teams_db
            THEN MemResponse("get_team", "NotFound", team_id)
          ELSE IF /\ teams_db[team_id].created_by # current_user.email
                  /\ current_user.email \notin Range(team_members_db[team_id])
            THEN MemResponse("get_team", "Forbidden", team_id)
          ELSE MemResponse("get_team", "ok", team_id)
    /\ UNCHANGED <<teams_db, team_members_db, team_user_ids>>
    /\ UNCHANGED <<dbVars, req, overlap, permVars, authVars>>

\* accounts are registered and change their email; teams are created, joined
\* and read
InitAccess == InitList

NextAccess ==
    \/ Register(1)
    \/ UpdateEmail(1)
    \/ \E current_user \in CurrentUsers, team_code \in secrets_choice_join({"A"}) :
          MemCreateTeam(current_user, team_code)
    \/ \E current_user \in CurrentUsers, team_code \in JoinCodeInputs :
          MemJoinTeam(current_user, team_code)
    \/ \E current_user \in CurrentUsers, team_id \in MemTeamIdInputs :
          MemGetTeam(current_user, team_id)

SpecAccess == InitAccess /\ [][NextAccess]_vars

\* C29: get_team of teams.py gives a team to exactly the users who created or
\* joined it, whatever emails the accounts have had since: a user who changed
\* their email still gets their teams, and a user who now has an email that a
\* creator or member used to have gets none of that user's teams.
C29_AccessFollowsUser ==
    [][ \A current_user \in CurrentUsers, team_id \in DOMAIN teams_db :
           MemGetTeam(current_user, team_id) =>
              (memResp'.result = "ok" <=> team_id \in TeamsOfUser(current_user.id))
      ]_vars

(***************************************************************************)
(* Read handlers of teams_new.py and their permission tests                *)
(***************************************************************************)
\* get_team_players (lines 284-312) and get_team_stats (lines 476-512):
\* authentication, team lookup, permission for every role, then the query
ReadWithPermission(p, o, actor, t) ==
    /\ Free(p)
    /\ LET r == Request(o, t, 0, 0, NoUpd, NoTeamUpd)
       IN req' = [req EXCEPT ![p] =
            IF actor = NoUser THEN Done(r, "Unauthorized")
            ELSE IF t \notin DOMAIN teams THEN Done(r, "NotFound")
            ELSE LET perm == check_team_permission(actor, teams[t],
                                 {"owner", "coach", "parent", "viewer"})
                 IN IF perm = "NameError" THEN Done(r, "InternalError")
                    ELSE IF perm = "False" THEN Done(r, "Forbidden")
                    ELSE Returned(r, t, 0, 0)]
    /\ UNCHANGED <<dbVars, overlap, permVars, memVars, authVars>>

GetTeamPlayers(p, actor, t) == ReadWithPermission(p, "get_team_players", actor, t)

GetTeamStats(p, actor, t) == ReadWithPermission(p, "get_team_stats", actor, t)

\* get_available_jersey_numbers, lines 437-468: authentication, team lookup,
\* the two lists; check_team_permission is not called
GetAvailableJerseyNumbers(p, actor, t) ==
    /\ Free(p)
    /\ LET r == Request("get_available_jersey_numbers", t, 0, 0, NoUpd, NoTeamUpd)
       IN req' = [req EXCEPT ![p] =
            IF actor = NoUser THEN Done(r, "Unauthorized")
            ELSE IF t \notin DOMAIN teams THEN Done(r, "NotFound")
            ELSE [Returned(r, t, 0, 0) EXCEPT
                    !.listed = Range(get_available_jersey_numbers(t).taken_numbers)]]
    /\ UNCHANGED <<dbVars, overlap, permVars, memVars, authVars>>

\* the read handlers against every team_memberships table of InitPermDb
InitReads == InitPermDb /\ InitPerm /\ InitMem /\ InitAuth

NextReads ==
    \E actor \in ActorInputs, t \in TeamIdInputs :
        \/ GetTeamNew(1, actor, t)
        \/ GetTeamPlayers(1, actor, t)
        \/ GetTeamStats(1, actor, t)
        \/ GetAvailableJerseyNumbers(1, actor, t)

SpecReads == InitReads /\ [][NextReads]_vars

\* the answer of proc 1 is 403
AnswersForbidden == req'[1].pc = "done" /\ req'[1].result = "Forbidden"

\* C30: for a user who neither created the team nor has a membership row on
\* it, get_available_jersey_numbers returns the numbers of the team, while
\* get_team, get_team_players and get_team_stats answer Forbidden.
C30_NumbersOpenOthersForbidden ==
    [][ \A actor \in Users, t \in DOMAIN teams :
           (teams[t].created_by # actor /\ RowsOf(actor, t) = {}) =>
              /\ GetAvailableJerseyNumbers(1, actor, t)
                    => (req'[1].pc = "done" /\ req'[1].result = "ok")
              /\ GetTeamNew(1, actor, t) => AnswersForbidden
              /\ GetTeamPlayers(1, actor, t) => AnswersForbidden
              /\ GetTeamStats(1, actor, t) => AnswersForbidden
      ]_vars

====
